---- MODULE Spec2Model ----
(***************************************************************************)
(* A model of search_latency_bench/benchmark.py: the query executor        *)
(* (process_single_query), the bounded batch scheduler (process_batch,     *)
(* process_batch_parallel with its asyncio.Semaphore), the statistics      *)
(* aggregator (calculate_summary_stats) and the orchestrator               *)
(* (run_benchmark).                                                        *)
(*                                                                         *)
(* The asyncio event loop is single threaded and cooperative: a coroutine  *)
(* runs without interruption from one suspension point to the next, so     *)
(* every action below is the code between two suspension points.           *)
(* Times are integers (milliseconds are seconds * 1000); statistics that   *)
(* Python computes by a division are kept as reduced fractions <<n, d>>.   *)
(* The timestamp fields (datetime.now) are not modelled.                   *)
(***************************************************************************)
EXTENDS Integers, Sequences, FiniteSets, TLC

VARIABLES
    queries,        \* run_benchmark's argument: the list of query texts
    parallel,       \* run_benchmark's argument: the parallel flag
    max_workers,    \* run_benchmark's argument: the worker ceiling
    pc,             \* position of the run_benchmark / process_batch coroutine
    now,            \* the clock read by time.time(), in seconds
    run_start,      \* run_benchmark's start_time
    idx,            \* sequential mode: index of the query of the current iteration
    task,           \* parallel mode: position of each bounded_process task
    sem_value,      \* asyncio.Semaphore._value
    sem_waiters,    \* asyncio.Semaphore._waiters (task indexes, FIFO)
    start_time,     \* process_single_query's start_time, per running invocation
    call_outcome,   \* what the adapter call of each invocation did (history)
    task_result,    \* the value each invocation returned
    failed_count,   \* BenchmarkProgress.failed_count
    progress_log,   \* the progress.update calls made so far
    results,        \* the list process_batch returned / the list to summarise
    benchmark,      \* the BenchmarkResult run_benchmark returned
    results_alt,    \* aggregator runs: a second result list
    summary,        \* aggregator runs: calculate_summary_stats(results)
    summary_alt,    \* aggregator runs: calculate_summary_stats(results_alt)
    completion_order, \* the invocations whose adapter call has ended, in that order (history)
    other_run,      \* two runs compared: what the run under the other flag value did
    response,       \* Brave runs: the HTTP response each call's client.get returned
    sleep_log       \* the asyncio.sleep calls made: the results recorded at each (history)

vars == <<queries, parallel, max_workers, pc, now, run_start, idx, task,
          sem_value, sem_waiters, start_time, call_outcome, task_result,
          failed_count, progress_log, results, benchmark,
          results_alt, summary, summary_alt, completion_order, other_run,
          response, sleep_log>>

-----------------------------------------------------------------------------
(* Bounds of the model *)

\* longest query list of a run
MaxQueries == 3
\* largest worker ceiling of a run
MaxWorkers == 2
\* last instant of the clock, in seconds
MaxTime == 2
\* longest result list given to the aggregator on its own
MaxResults == 3
\* largest latency of a result given to the aggregator on its own
MaxLatency == 3

ApiName == "exa-fast"

\* Optional values: None is the empty sequence, a present value v is <<v>>.
None == <<>>
Some(v) == <<v>>

-----------------------------------------------------------------------------
(* Exact arithmetic *)

RECURSIVE GCD(_, _)
GCD(a, b) == IF b = 0 THEN a ELSE GCD(b, a % b)

\* the number n / d (d > 0, n >= 0), reduced
Frac(n, d) == LET g == GCD(n, d) IN <<n \div g, d \div g>>

RECURSIVE SumSeq(_)
SumSeq(s) == IF s = <<>> THEN 0 ELSE Head(s) + SumSeq(Tail(s))

MinSeq(s) == CHOOSE x \in {s[i] : i \in DOMAIN s} : \A i \in DOMAIN s : x <= s[i]
MaxSeq(s) == CHOOSE x \in {s[i] : i \in DOMAIN s} : \A i \in DOMAIN s : x >= s[i]

\* sorted(data)
sorted(data) == SortSeq(data, LAMBDA a, b : a < b)

\* statistics.quantiles(data, n=n) with the default method, "exclusive"
quantiles_exclusive(data, n) ==
    LET s == sorted(data)
        ld == Len(s)
        m == ld + 1
    IN  [i \in 1..(n - 1) |->
            LET j0 == (i * m) \div n
                j == IF j0 < 1 THEN 1 ELSE IF j0 > ld - 1 THEN ld - 1 ELSE j0
                delta == i * m - j * n
            IN  Frac(s[j] * (n - delta) + s[j + 1] * delta, n)]

\* statistics.quantiles(data, n=n, method="inclusive"): the n-1 cut points.
\* Python's data[j] is data[j + 1] here; the result's q[i-1] is quantiles[i].
quantiles(data, n) ==
    LET s == sorted(data)
        m == Len(s) - 1
    IN  [i \in 1..(n - 1) |->
            LET j == (i * m) \div n
                delta == (i * m) % n
            IN  Frac(s[j + 1] * (n - delta) + s[j + 2] * delta, n)]

\* statistics.mean(data)
mean(data) == Frac(SumSeq(data), Len(data))

-----------------------------------------------------------------------------
(* types.py *)

SearchResult(success, query, latency_ms, result_urls, status_code, error) ==
    [success |-> success, api |-> ApiName, query |-> query,
     latency_ms |-> latency_ms, result_urls |-> result_urls,
     status_code |-> status_code, error |-> error]

LatencyStats(min, p50, p90, p95, p99, max, mean_) ==
    [min |-> min, p50 |-> p50, p90 |-> p90, p95 |-> p95, p99 |-> p99,
     max |-> max, mean |-> mean_]

BenchmarkSummary(total_queries, successful_queries, failed_queries, latency) ==
    [total_queries |-> total_queries, successful_queries |-> successful_queries,
     failed_queries |-> failed_queries, latency |-> latency]

-----------------------------------------------------------------------------
(* calculate_summary_stats *)

\* no filter on the success flag
successful_all(rs) == rs

\* successful = [r for r in results if r.success]
successful(rs) == SelectSeq(rs, LAMBDA r : r.success)

\* the latencies of all results, failed ones included
latency_times_all(rs) == [i \in 1..Len(rs) |-> rs[i].latency_ms]

\* latency_times = [r.latency_ms for r in successful]
latency_times(rs) == [i \in 1..Len(successful(rs)) |-> successful(rs)[i].latency_ms]

\* no branch for a single latency: statistics only from two successes on
latency_stats_from_two(lt) ==
    IF Len(lt) < 2 THEN None
    ELSE LET q == quantiles(lt, 100)
         IN  Some(LatencyStats(Frac(MinSeq(lt), 1), q[50], q[90], q[95], q[99],
                               Frac(MaxSeq(lt), 1), mean(lt)))

\* lines 137-159: the LatencyStats of a non-empty list of latencies
latency_stats(lt) ==
    IF Len(lt) = 0 THEN None
    ELSE IF Len(lt) = 1
    THEN LET single_value == Frac(lt[1], 1)
         IN  Some(LatencyStats(single_value, single_value, single_value,
                               single_value, single_value, single_value,
                               single_value))
    ELSE LET q == quantiles(lt, 100)
         IN  Some(LatencyStats(Frac(MinSeq(lt), 1), q[50], q[90], q[95], q[99],
                               Frac(MaxSeq(lt), 1), mean(lt)))

\* the early return reports no failed query
calculate_summary_stats_zero_failed(rs) ==
    IF Len(successful(rs)) = 0
    THEN BenchmarkSummary(Len(rs), 0, 0, None)
    ELSE BenchmarkSummary(Len(rs), Len(successful(rs)),
                          Len(rs) - Len(successful(rs)),
                          latency_stats(latency_times(rs)))

calculate_summary_stats(rs) ==
    IF Len(successful(rs)) = 0
    THEN BenchmarkSummary(Len(rs), 0, Len(rs), None)
    ELSE BenchmarkSummary(Len(rs), Len(successful(rs)),
                          Len(rs) - Len(successful(rs)),
                          latency_stats(latency_times(rs)))

-----------------------------------------------------------------------------
(* The backend adapter: engine(query, num_results) *)

UrlLists == {<<>>, <<"u1">>}
AdapterErrors == {"HTTP 500"}
ValidationError == "validation error"

\* What one adapter call can do: return a list of URL strings (possibly
\* empty), return a value that is no list of strings (a null url in the
\* payload), or raise an exception.
AdapterOutcomes ==
    {[kind |-> "return", urls |-> u, error |-> ""] : u \in UrlLists}
    \cup {[kind |-> "malformed", urls |-> <<>>, error |-> ""]}
    \cup {[kind |-> "raise", urls |-> <<>>, error |-> e] : e \in AdapterErrors}

\* no adapter call has ended yet
NoOutcome == [kind |-> "none", urls |-> <<>>, error |-> ""]

\* the adapter calls that count as failed: the call raised, or returned a
\* payload the SearchResult constructor rejects
CallFailed(out) == out.kind \in {"raise", "malformed"}

-----------------------------------------------------------------------------
(* The Brave adapter: BraveSearchEngine.__call__ *)

\* the two statuses __call__ tests for
StatusOk == 200
StatusNoResults == 422

\* the HTTP statuses of the responses the Brave API is taken to send: the
\* two above, and two others (too many requests, server error)
BraveStatuses == {StatusOk, StatusNoResults, 429, 500}

\* the responses client.get returns: a status and, with 200, the URLs of
\* data["web"]["results"]
BraveResponses ==
    {[status_code |-> StatusOk, urls |-> u] : u \in UrlLists}
    \cup {[status_code |-> c, urls |-> <<>>] : c \in BraveStatuses \ {StatusOk}}

\* f"... HTTP {response.status_code}"
BraveErrorText(status_code) ==
    CASE status_code = StatusNoResults -> "HTTP 422"
      [] status_code = 429 -> "HTTP 429"
      [] status_code = 500 -> "HTTP 500"
      [] OTHER -> "HTTP 200"

BraveErrors == {BraveErrorText(c) : c \in BraveStatuses}

\* a Brave adapter that raises on every status but 200
brave_call_strict(resp) ==
    IF resp.status_code # StatusOk
    THEN [kind |-> "raise", urls |-> <<>>, error |-> BraveErrorText(resp.status_code)]
    ELSE [kind |-> "return", urls |-> resp.urls, error |-> ""]

\* What __call__ does with the response it received: 422 is "no results",
\* any other status but 200 raises, 200 gives the URLs of the payload.
brave_call(resp) ==
    IF resp.status_code = StatusNoResults
    THEN [kind |-> "return", urls |-> <<>>, error |-> ""]
    ELSE IF resp.status_code # StatusOk
    THEN [kind |-> "raise", urls |-> <<>>, error |-> BraveErrorText(resp.status_code)]
    ELSE [kind |-> "return", urls |-> resp.urls, error |-> ""]

-----------------------------------------------------------------------------
(* process_single_query *)

\* a handler that catches nothing
except_nothing(e) == FALSE

\* a handler that catches only what the adapter itself raises
except_adapter_errors(e) == e \in AdapterErrors

\* `except Exception as e`: whether the handler catches e. Everything the
\* adapters raise (Exception, httpx errors) and pydantic's validation error
\* are subclasses of Exception.
except_Exception(e) == e \in AdapterErrors \cup BraveErrors \cup {ValidationError}

\* an executor whose successful result also carries an error text
process_single_query_error_on_success(query, out, start, end, counter) ==
    LET latency_ms == (end - start) * 1000
        e == IF out.kind = "raise" THEN out.error ELSE ValidationError
    IN  IF out.kind = "return"
        THEN [raised |-> FALSE,
              value |-> Some(SearchResult(TRUE, query, latency_ms, out.urls,
                                          Some(200), Some(""))),
              failed_count |-> counter]
        ELSE [raised |-> FALSE,
              value |-> Some(SearchResult(FALSE, query, latency_ms, <<>>,
                                          None, Some(e))),
              failed_count |-> counter + 1]

\* an executor that never touches the failure counter
process_single_query_no_count(query, out, start, end, counter) ==
    LET latency_ms == (end - start) * 1000
        e == IF out.kind = "raise" THEN out.error ELSE ValidationError
    IN  IF out.kind = "return"
        THEN [raised |-> FALSE,
              value |-> Some(SearchResult(TRUE, query, latency_ms, out.urls,
                                          Some(200), None)),
              failed_count |-> counter]
        ELSE [raised |-> FALSE,
              value |-> Some(SearchResult(FALSE, query, latency_ms, <<>>,
                                          None, Some(e))),
              failed_count |-> counter]

\* One invocation whose adapter call did `out`, started at `start` and ended
\* at `end`, with the failure counter at `counter`: whether it raised, the
\* SearchResult it returned, and the counter afterwards.
process_single_query(query, out, start, end, counter) ==
    LET latency_ms == (end - start) * 1000
        e == IF out.kind = "raise" THEN out.error ELSE ValidationError
    IN  IF out.kind = "return"
        THEN [raised |-> FALSE,
              value |-> Some(SearchResult(TRUE, query, latency_ms, out.urls,
                                          Some(200), None)),
              failed_count |-> counter]
        ELSE IF except_Exception(e)
        THEN [raised |-> FALSE,
              value |-> Some(SearchResult(FALSE, query, latency_ms, <<>>,
                                          None, Some(e))),
              failed_count |-> counter + 1]
        ELSE [raised |-> TRUE, value |-> None, failed_count |-> counter]

\* an observer that is told of successful batches only: no notification once
\* a failure has been counted
progress_update_unless_failed(log, counter) ==
    IF counter > 0 THEN log
    ELSE Append(log, [completed |-> Len(log) + 1, failed |-> counter])

\* progress.update(task_id, advance=1, description=...{failed_count} failed)
progress_update(log, counter) ==
    Append(log, [completed |-> Len(log) + 1, failed |-> counter])

-----------------------------------------------------------------------------
(* asyncio.Semaphore, as process_batch_parallel uses it *)

Tasks == 1..Len(queries)

\* a limiter that never blocks
locked_never(value, waiters) == FALSE

\* Semaphore.locked(): no waiter is ever cancelled in this program
locked(value, waiters) == value = 0 \/ waiters # <<>>

\* the waiters whose future is not done yet
pending_waiters(waiters, t) == SelectSeq(waiters, LAMBDA w : t[w] = "waiting")

\* Semaphore._wake_up_next(): hands one unit to the first waiter whose
\* future is not done; <<value, task>> afterwards
wake_up_next(value, waiters, t) ==
    LET p == pending_waiters(waiters, t)
    IN  IF p = <<>> THEN <<value, t>>
        ELSE <<value - 1, [t EXCEPT ![Head(p)] = "woken"]>>

\* Semaphore.release()
release(value, waiters, t) == wake_up_next(value + 1, waiters, t)

remove(waiters, w) == SelectSeq(waiters, LAMBDA x : x # w)

\* the adapter calls in flight
InFlight == {i \in Tasks : task[i] = "calling"}

-----------------------------------------------------------------------------
(* run_benchmark *)

RECURSIVE SeqsUpTo(_, _)
\* the sequences over S of length at most n
SeqsUpTo(S, n) ==
    IF n = 0 THEN {<<>>}
    ELSE LET shorter == SeqsUpTo(S, n - 1)
         IN  shorter \cup {Append(s, x) : s \in shorter, x \in S}

\* The query lists of the runs. The code never reads a query text, it only
\* copies it into the result, so a run depends on the list's length alone and
\* the texts serve to tell results apart: every length up to MaxQueries, once
\* with one text repeated throughout (all duplicates) and once with the texts
\* alternating (neighbours differ, the third repeats the first).
QueryLists ==
    {[i \in 1..n |-> "q1"] : n \in 0..MaxQueries}
    \cup {[i \in 1..n |-> IF i % 2 = 1 THEN "q1" ELSE "q2"] : n \in 0..MaxQueries}

\* the aggregator's own variables, unused while a run is modelled
StatsIdle == /\ results_alt = <<>>
             /\ summary = None
             /\ summary_alt = None

\* A call run_benchmark(engine, queries, num_results, api_name, parallel,
\* max_workers) about to start: any query list (duplicates allowed), either
\* flag, any ceiling asyncio.Semaphore accepts.
Init ==
    /\ queries \in QueryLists
    /\ parallel \in BOOLEAN
    /\ max_workers \in 0..MaxWorkers
    /\ pc = "start"
    /\ now = 0
    /\ run_start = 0
    /\ idx = 0
    /\ task = [i \in Tasks |-> "new"]
    /\ sem_value = 0
    /\ sem_waiters = <<>>
    /\ start_time = [i \in Tasks |-> 0]
    /\ call_outcome = [i \in Tasks |-> NoOutcome]
    /\ task_result = [i \in Tasks |-> None]
    /\ failed_count = 0
    /\ progress_log = <<>>
    /\ results = <<>>
    /\ benchmark = None
    /\ completion_order = <<>>
    /\ other_run = None
    /\ response = [i \in Tasks |-> None]
    /\ sleep_log = <<>>
    /\ StatsIdle

\* time.time() advances (the clock never goes backwards). Code between two
\* suspension points takes no time: time passes while the event loop waits
\* for an adapter call or for the sleep.
Tick ==
    /\ \/ pc \in {"seq_await", "seq_sleep"}
       \/ pc = "gather" /\ \E i \in DOMAIN task : task[i] = "calling"
    /\ now < MaxTime
    /\ now' = now + 1
    /\ UNCHANGED <<queries, parallel, max_workers, pc, run_start, idx, task,
                   sem_value, sem_waiters, start_time, call_outcome, task_result,
                   failed_count, progress_log, results, benchmark,
                   results_alt, summary, summary_alt,
                   completion_order, other_run, response, sleep_log>>

\* run_benchmark up to its first suspension: start_time, the failure counter,
\* the progress task, and process_batch's choice of mode. In parallel mode
\* process_batch_parallel creates the semaphore and gather() wraps one
\* bounded_process coroutine per query in a task.
run_benchmark_start ==
    /\ pc = "start"
    /\ run_start' = now
    /\ failed_count' = 0
    /\ progress_log' = <<>>
    /\ IF parallel /\ Len(queries) > 1
       THEN /\ sem_value' = max_workers
            /\ sem_waiters' = <<>>
            /\ pc' = "gather"
            /\ idx' = idx
       ELSE /\ pc' = "seq_loop"
            /\ idx' = 1
            /\ UNCHANGED <<sem_value, sem_waiters>>
    /\ UNCHANGED <<queries, parallel, max_workers, now, task, start_time,
                   call_outcome, task_result, results, benchmark,
                   results_alt, summary, summary_alt,
                   completion_order, other_run, response, sleep_log>>

\* A bounded_process task runs for the first time (tasks start in the order
\* gather() created them): `async with semaphore` acquires a unit and the
\* adapter call starts, or the task joins the waiters.
bounded_process_enter(i) ==
    /\ pc \in {"gather", "raised"}
    /\ parallel /\ Len(queries) > 1
    /\ task[i] = "new"
    /\ \A j \in Tasks : j < i => task[j] # "new"
    /\ IF ~locked(sem_value, sem_waiters)
       THEN /\ sem_value' = sem_value - 1
            /\ task' = [task EXCEPT ![i] = "calling"]
            /\ start_time' = [start_time EXCEPT ![i] = now]
            /\ UNCHANGED sem_waiters
       ELSE /\ sem_waiters' = Append(sem_waiters, i)
            /\ task' = [task EXCEPT ![i] = "waiting"]
            /\ UNCHANGED <<sem_value, start_time>>
    /\ UNCHANGED <<queries, parallel, max_workers, pc, now, run_start, idx,
                   call_outcome, task_result, failed_count, progress_log,
                   results, benchmark, results_alt, summary, summary_alt,
                   completion_order, other_run, response, sleep_log>>

\* a task whose start time is the time it was submitted, read before it
\* waits for the semaphore
bounded_process_resume_early_start(i) ==
    /\ task[i] = "woken"
    /\ LET w == remove(sem_waiters, i)
           t == [task EXCEPT ![i] = "calling"]
           woke == IF sem_value > 0 THEN wake_up_next(sem_value, w, t)
                   ELSE <<sem_value, t>>
       IN  /\ sem_waiters' = w
           /\ sem_value' = woke[1]
           /\ task' = woke[2]
    /\ start_time' = [start_time EXCEPT ![i] = run_start]
    /\ UNCHANGED <<queries, parallel, max_workers, pc, now, run_start, idx,
                   call_outcome, task_result, failed_count, progress_log,
                   results, benchmark, results_alt, summary, summary_alt,
                   completion_order, other_run, response, sleep_log>>

\* A waiter whose future was set resumes inside Semaphore.acquire(): it leaves
\* the waiters, passes a spare unit on, and its adapter call starts.
bounded_process_resume(i) ==
    /\ task[i] = "woken"
    /\ LET w == remove(sem_waiters, i)
           t == [task EXCEPT ![i] = "calling"]
           woke == IF sem_value > 0 THEN wake_up_next(sem_value, w, t)
                   ELSE <<sem_value, t>>
       IN  /\ sem_waiters' = w
           /\ sem_value' = woke[1]
           /\ task' = woke[2]
    /\ start_time' = [start_time EXCEPT ![i] = now]
    /\ UNCHANGED <<queries, parallel, max_workers, pc, now, run_start, idx,
                   call_outcome, task_result, failed_count, progress_log,
                   results, benchmark, results_alt, summary, summary_alt,
                   completion_order, other_run, response, sleep_log>>

\* The adapter call of task i ends with outcome `out`: process_single_query
\* builds its result, bounded_process notifies the progress observer, the
\* semaphore is released on leaving `async with`, and the task ends.
bounded_process_complete(i, out) ==
    /\ task[i] = "calling"
    /\ LET r == process_single_query(queries[i], out, start_time[i], now, failed_count)
           rel == release(sem_value, sem_waiters,
                          [task EXCEPT ![i] = IF r.raised THEN "raised" ELSE "done"])
       IN  /\ failed_count' = r.failed_count
           /\ task_result' = [task_result EXCEPT ![i] = r.value]
           /\ progress_log' = IF r.raised THEN progress_log
                              ELSE progress_update(progress_log, r.failed_count)
           /\ sem_value' = rel[1]
           /\ task' = rel[2]
    /\ completion_order' = Append(completion_order, i)
    /\ call_outcome' = [call_outcome EXCEPT ![i] = out]
    /\ start_time' = [start_time EXCEPT ![i] = 0]
    /\ UNCHANGED <<queries, parallel, max_workers, pc, now, run_start, idx,
                   sem_waiters, results, benchmark,
                   results_alt, summary, summary_alt, other_run, response, sleep_log>>

BenchmarkResult(execution_mode, workers, queries_count, total_ms, summary_, results_) ==
    [api |-> ApiName, execution_mode |-> execution_mode, max_workers |-> workers,
     queries_count |-> queries_count, total_execution_time_ms |-> total_ms,
     summary |-> summary_, results |-> results_]

\* a run_benchmark that reads its start_time only after the batch has run
run_benchmark_finish_late_start(rs) ==
    BenchmarkResult(IF parallel THEN "parallel" ELSE "sequential",
                    IF parallel THEN max_workers ELSE 1,
                    Len(queries),
                    (now - now) * 1000,
                    calculate_summary_stats(rs),
                    rs)

\* run_benchmark once process_batch has returned `rs` (no suspension point is
\* left): total_time, the summary and the BenchmarkResult.
run_benchmark_finish(rs) ==
    BenchmarkResult(IF parallel THEN "parallel" ELSE "sequential",
                    IF parallel THEN max_workers ELSE 1,
                    Len(queries),
                    (now - run_start) * 1000,
                    calculate_summary_stats(rs),
                    rs)

\* a gather that keeps only the successful results
gather_successful(tr) == SelectSeq([i \in DOMAIN tr |-> tr[i][1]], LAMBDA r : r.success)

\* a gather that yields the results as the tasks complete
gather_as_completed(tr) == [k \in DOMAIN tr |-> tr[completion_order[k]][1]]

\* a gather that yields the results of the tasks last to first
gather_reversed(tr) == [i \in DOMAIN tr |-> tr[Len(tr) + 1 - i][1]]

\* asyncio.gather(*tasks): the results of the tasks, in the order of the tasks
gather(tr) == [i \in DOMAIN tr |-> tr[i][1]]

\* `await asyncio.gather(...)` ends: with the list of all results once every
\* task has returned, and run_benchmark returns its record; or with the
\* exception of a task that raised.
gather_return ==
    /\ pc = "gather"
    /\ IF \E i \in Tasks : task[i] = "raised" THEN TRUE
       ELSE \A i \in Tasks : task[i] = "done"
    /\ IF \E i \in Tasks : task[i] = "raised"
       THEN pc' = "raised" /\ UNCHANGED <<results, benchmark>>
       ELSE /\ pc' = "done"
            /\ results' = gather(task_result)
            /\ benchmark' = Some(run_benchmark_finish(gather(task_result)))
    /\ UNCHANGED <<queries, parallel, max_workers, now, run_start, idx, task,
                   sem_value, sem_waiters, start_time, call_outcome, task_result,
                   failed_count, progress_log,
                   results_alt, summary, summary_alt,
                   completion_order, other_run, response, sleep_log>>

\* Sequential mode, `for query in queries`: the next iteration starts its
\* process_single_query, whose adapter call begins.
seq_call ==
    /\ pc = "seq_loop"
    /\ idx <= Len(queries)
    /\ start_time' = [start_time EXCEPT ![idx] = now]
    /\ pc' = "seq_await"
    /\ UNCHANGED <<queries, parallel, max_workers, now, run_start, idx, task,
                   sem_value, sem_waiters, call_outcome, task_result,
                   failed_count, progress_log, results, benchmark,
                   results_alt, summary, summary_alt,
                   completion_order, other_run, response, sleep_log>>

\* a loop that puts every new result at the front of the list
seq_complete_prepend(out) ==
    /\ pc = "seq_await"
    /\ LET r == process_single_query(queries[idx], out, start_time[idx], now, failed_count)
       IN  /\ failed_count' = r.failed_count
           /\ task_result' = [task_result EXCEPT ![idx] = r.value]
           /\ results' = <<r.value[1]>> \o results
           /\ progress_log' = progress_update(progress_log, r.failed_count)
           /\ IF Len(queries) > 1
              THEN /\ pc' = "seq_sleep" /\ idx' = idx
                           /\ sleep_log' = Append(sleep_log, Len(results'))
              ELSE /\ pc' = "seq_loop" /\ idx' = idx + 1
                           /\ UNCHANGED sleep_log
    /\ completion_order' = Append(completion_order, idx)
    /\ call_outcome' = [call_outcome EXCEPT ![idx] = out]
    /\ start_time' = [start_time EXCEPT ![idx] = 0]
    /\ UNCHANGED <<queries, parallel, max_workers, now, run_start, task,
                   sem_value, sem_waiters, benchmark,
                   results_alt, summary, summary_alt, other_run, response>>

\* Sequential mode: the adapter call ends with outcome `out`; the result is
\* appended, the progress observer notified, and with more than one query
\* the loop sleeps.
seq_complete(out) ==
    /\ pc = "seq_await"
    /\ LET r == process_single_query(queries[idx], out, start_time[idx], now, failed_count)
       IN  /\ failed_count' = r.failed_count
           /\ task_result' = [task_result EXCEPT ![idx] = r.value]
           /\ IF r.raised
              THEN /\ pc' = "raised"
                   /\ UNCHANGED <<results, progress_log, idx, sleep_log>>
              ELSE /\ results' = Append(results, r.value[1])
                   /\ progress_log' = progress_update(progress_log, r.failed_count)
                   /\ IF Len(queries) > 1
                      THEN /\ pc' = "seq_sleep" /\ idx' = idx
                           /\ sleep_log' = Append(sleep_log, Len(results'))
                      ELSE /\ pc' = "seq_loop" /\ idx' = idx + 1
                           /\ UNCHANGED sleep_log
    /\ completion_order' = Append(completion_order, idx)
    /\ call_outcome' = [call_outcome EXCEPT ![idx] = out]
    /\ start_time' = [start_time EXCEPT ![idx] = 0]
    /\ UNCHANGED <<queries, parallel, max_workers, now, run_start, task,
                   sem_value, sem_waiters, benchmark,
                   results_alt, summary, summary_alt, other_run, response>>

\* Sequential mode: `await asyncio.sleep(0.1)` ends, the loop goes on
seq_sleep_done ==
    /\ pc = "seq_sleep"
    /\ pc' = "seq_loop"
    /\ idx' = idx + 1
    /\ UNCHANGED <<queries, parallel, max_workers, now, run_start, task,
                   sem_value, sem_waiters, start_time, call_outcome, task_result,
                   failed_count, progress_log, results, benchmark,
                   results_alt, summary, summary_alt,
                   completion_order, other_run, response, sleep_log>>

\* Sequential mode: the loop is over, process_batch returns `results` and
\* run_benchmark returns its record
seq_return ==
    /\ pc = "seq_loop"
    /\ idx > Len(queries)
    /\ pc' = "done"
    /\ benchmark' = Some(run_benchmark_finish(results))
    /\ UNCHANGED <<queries, parallel, max_workers, now, run_start, idx, task,
                   sem_value, sem_waiters, start_time, call_outcome, task_result,
                   failed_count, progress_log, results,
                   results_alt, summary, summary_alt,
                   completion_order, other_run, response, sleep_log>>

\* the steps of the run itself
Step ==
    \/ run_benchmark_start
    \/ \E i \in Tasks : bounded_process_enter(i)
    \/ \E i \in Tasks : bounded_process_resume(i)
    \/ \E i \in Tasks : \E out \in AdapterOutcomes : bounded_process_complete(i, out)
    \/ gather_return
    \/ seq_call
    \/ \E out \in AdapterOutcomes : seq_complete(out)
    \/ seq_sleep_done
    \/ seq_return

Next == Tick \/ Step

Spec == Init /\ [][Next]_vars

-----------------------------------------------------------------------------
(* A single-query batch run twice, once under each value of the flag *)

\* run_benchmark has returned for a single-query batch and is called again
\* with the same arguments but the parallel flag negated; what the first run
\* did is kept in other_run.
run_again_flipped ==
    /\ pc = "done"
    /\ Len(queries) = 1
    /\ other_run = None
    /\ other_run' = Some([parallel |-> parallel, task |-> task,
                          sem_value |-> sem_value, call_outcome |-> call_outcome,
                          completion_order |-> completion_order,
                          results |-> results, benchmark |-> benchmark[1]])
    /\ parallel' = ~parallel
    /\ pc' = "start"
    /\ now' = 0
    /\ run_start' = 0
    /\ idx' = 0
    /\ task' = [i \in Tasks |-> "new"]
    /\ sem_value' = 0
    /\ sem_waiters' = <<>>
    /\ start_time' = [i \in Tasks |-> 0]
    /\ call_outcome' = [i \in Tasks |-> NoOutcome]
    /\ task_result' = [i \in Tasks |-> None]
    /\ failed_count' = 0
    /\ progress_log' = <<>>
    /\ results' = <<>>
    /\ benchmark' = None
    /\ completion_order' = <<>>
    /\ sleep_log' = <<>>
    /\ UNCHANGED <<queries, max_workers, results_alt, summary, summary_alt, response>>

FlagNext == Next \/ run_again_flipped

FlagSpec == Init /\ [][FlagNext]_vars

-----------------------------------------------------------------------------
(* A run whose engine is the Brave adapter *)

\* the calls whose request is out: the adapter awaits client.get
AwaitingResponse ==
    {i \in Tasks : /\ response[i] = None
                   /\ \/ task[i] = "calling"
                      \/ pc = "seq_await" /\ idx = i}

\* client.get of call i returns the response `resp`
brave_get_returns(i, resp) ==
    /\ i \in AwaitingResponse
    /\ response' = [response EXCEPT ![i] = Some(resp)]
    /\ UNCHANGED <<queries, parallel, max_workers, pc, now, run_start, idx, task,
                   sem_value, sem_waiters, start_time, call_outcome, task_result,
                   failed_count, progress_log, results, benchmark,
                   results_alt, summary, summary_alt,
                   completion_order, other_run, sleep_log>>

\* parallel mode: the adapter of task i handles its response and the
\* invocation ends
brave_bounded_process_complete(i) ==
    /\ response[i] # None
    /\ bounded_process_complete(i, brave_call(response[i][1]))

\* sequential mode: the adapter handles its response and the invocation ends
brave_seq_complete ==
    /\ pc = "seq_await"
    /\ response[idx] # None
    /\ seq_complete(brave_call(response[idx][1]))

\* The steps of a Brave run. The clock stands still in these runs: what the
\* adapter and the executor make of a response does not depend on the time.
BraveNext ==
    \/ run_benchmark_start
    \/ \E i \in Tasks : bounded_process_enter(i)
    \/ \E i \in Tasks : bounded_process_resume(i)
    \/ \E i \in Tasks : \E resp \in BraveResponses : brave_get_returns(i, resp)
    \/ \E i \in Tasks : brave_bounded_process_complete(i)
    \/ gather_return
    \/ seq_call
    \/ brave_seq_complete
    \/ seq_sleep_done
    \/ seq_return

BraveSpec == Init /\ [][BraveNext]_vars

-----------------------------------------------------------------------------
(* calculate_summary_stats on its own: summarize(results) *)

\* the results a list given to the aggregator is made of
FailedResults ==
    {SearchResult(FALSE, "q1", l, <<>>, None, Some("HTTP 500")) : l \in 0..MaxLatency}
SuccessfulResults ==
    {SearchResult(TRUE, "q1", l, <<"u1">>, Some(200), None) : l \in 0..MaxLatency}

insert(s, k, x) == SubSeq(s, 1, k - 1) \o <<x>> \o SubSeq(s, k, Len(s))
delete(s, k) == SubSeq(s, 1, k - 1) \o SubSeq(s, k + 1, Len(s))

\* the lists that differ from rs by one failed result: one more, one fewer,
\* or one with another latency
FailedVariants(rs) ==
    {insert(rs, k, f) : k \in 1..(Len(rs) + 1), f \in FailedResults}
    \cup {delete(rs, k) : k \in {i \in DOMAIN rs : ~rs[i].success}}
    \cup {[rs EXCEPT ![k] = f] : k \in {i \in DOMAIN rs : ~rs[i].success},
                                 f \in FailedResults}

\* the scheduler's variables, unused while the aggregator is run on its own
RunIdle ==
    /\ queries = <<>>
    /\ parallel = FALSE
    /\ max_workers = 1
    /\ now = 0
    /\ run_start = 0
    /\ idx = 0
    /\ task = <<>>
    /\ sem_value = 0
    /\ sem_waiters = <<>>
    /\ start_time = <<>>
    /\ call_outcome = <<>>
    /\ task_result = <<>>
    /\ failed_count = 0
    /\ progress_log = <<>>
    /\ benchmark = None
    /\ completion_order = <<>>
    /\ other_run = None
    /\ response = <<>>
    /\ sleep_log = <<>>

\* any list of results, the empty one included
StatsInit ==
    /\ pc = "stats_input"
    /\ results \in SeqsUpTo(FailedResults \cup SuccessfulResults, MaxResults)
    /\ results_alt = results
    /\ summary = None
    /\ summary_alt = None
    /\ RunIdle

\* a second list with the same successful results
vary_failed ==
    /\ pc = "stats_input"
    /\ results_alt' \in FailedVariants(results)
    /\ pc' = "stats_varied"
    /\ UNCHANGED <<queries, parallel, max_workers, now, run_start, idx, task,
                   sem_value, sem_waiters, start_time, call_outcome, task_result,
                   failed_count, progress_log, results, benchmark,
                   summary, summary_alt,
                   completion_order, other_run, response, sleep_log>>

\* calculate_summary_stats is called on each list
summarize ==
    /\ pc \in {"stats_input", "stats_varied"}
    /\ summary' = Some(calculate_summary_stats(results))
    /\ summary_alt' = Some(calculate_summary_stats(results_alt))
    /\ pc' = "stats_done"
    /\ UNCHANGED <<queries, parallel, max_workers, now, run_start, idx, task,
                   sem_value, sem_waiters, start_time, call_outcome, task_result,
                   failed_count, progress_log, results, benchmark, results_alt,
                   completion_order, other_run, response, sleep_log>>

StatsNext == vary_failed \/ summarize

StatsSpec == StatsInit /\ [][StatsNext]_vars

-----------------------------------------------------------------------------
(* Fairness: the event loop runs every task that is ready, every adapter   *)
(* call in flight eventually returns or fails, and the sleep ends.         *)

Fairness ==
    /\ WF_vars(run_benchmark_start)
    /\ \A i \in 1..MaxQueries :
          /\ WF_vars(i \in Tasks /\ bounded_process_enter(i))
          /\ WF_vars(i \in Tasks /\ bounded_process_resume(i))
          /\ WF_vars(i \in Tasks /\ \E out \in AdapterOutcomes :
                                        bounded_process_complete(i, out))
    /\ WF_vars(gather_return)
    /\ WF_vars(seq_call)
    /\ WF_vars(\E out \in AdapterOutcomes : seq_complete(out))
    /\ WF_vars(seq_sleep_done)
    /\ WF_vars(seq_return)

LiveSpec == Spec /\ Fairness

-----------------------------------------------------------------------------
(* Properties of the scheduler *)

\* the batch runs in parallel mode: process_batch_parallel was called
ParallelMode == parallel /\ Len(queries) > 1

\* process_batch has returned its list
BatchReturned == pc = "done"

\* the number of positions of s that hold x
Count(s, x) == Cardinality({i \in DOMAIN s : s[i] = x})

\* C1: in parallel mode, in every reachable state, the number of adapter
\* calls that have started and not yet returned or failed is at most the
\* ceiling max_workers.
C1_InFlightAtMostCeiling ==
    ParallelMode => Cardinality(InFlight) <= max_workers

\* C1 witness: the ceiling is reached and binds: max_workers calls are in
\* flight while another task waits for a unit.
C1_Witness ==
    /\ ParallelMode
    /\ max_workers = 2
    /\ Cardinality(InFlight) = max_workers
    /\ \E i \in Tasks : task[i] = "waiting"

\* C2: in parallel mode the list process_batch returns has one SearchResult
\* per input query: its length is the number of queries, every query text
\* occurs in it as often as in the input, and the results with success=false
\* are as many as the adapter calls that failed.
C2_OneResultPerQuery ==
    (ParallelMode /\ BatchReturned) =>
        /\ Len(results) = Len(queries)
        /\ \A i \in DOMAIN queries :
              Count([k \in DOMAIN results |-> results[k].query], queries[i])
                  = Count(queries, queries[i])
        /\ \A k \in DOMAIN results :
              \E i \in DOMAIN queries : results[k].query = queries[i]
        /\ Cardinality({k \in DOMAIN results : ~results[k].success})
              = Cardinality({i \in Tasks : CallFailed(call_outcome[i])})

\* C2 witness: a parallel batch of three queries with a duplicate returned,
\* one call having failed and one having succeeded.
C2_Witness ==
    /\ ParallelMode /\ BatchReturned
    /\ Len(queries) = 3
    /\ queries[1] = queries[3] /\ queries[1] # queries[2]
    /\ \E i \in Tasks : CallFailed(call_outcome[i])
    /\ \E i \in Tasks : call_outcome[i].kind = "return"

\* the adapter call of task i fails in this step
FailsNow(i) ==
    /\ task[i] = "calling"
    /\ task'[i] # "calling"
    /\ CallFailed(call_outcome'[i])

\* a sibling that has not ended can go on: it is in its adapter call, it can
\* take its next step, or it waits for a unit that a running task holds
CanGoOn(j) ==
    \/ task[j] \in {"done", "calling"}
    \/ task[j] = "woken" /\ ENABLED bounded_process_resume(j)
    \/ task[j] = "new" /\ \/ ENABLED bounded_process_enter(j)
                          \/ \E k \in Tasks : k < j /\ task[k] = "new"
    \/ /\ task[j] = "waiting"
       /\ \E k \in DOMAIN sem_waiters : sem_waiters[k] = j
       /\ \E k \in Tasks : task[k] \in {"calling", "woken"}

\* C3: in parallel mode a failed adapter call never cancels or skips a
\* sibling. The step in which a call fails leaves every other task where it
\* was (or wakes the next waiter); after a failure every task that has not
\* ended is still running or able to be admitted and run; and once the batch
\* is past gather every task has made its adapter call and ended normally.
C3_FailureSparesSiblings ==
    /\ [][\A i \in Tasks : (ParallelMode /\ FailsNow(i)) =>
            \A j \in Tasks \ {i} :
                \/ task'[j] = task[j]
                \/ task[j] = "waiting" /\ task'[j] = "woken"]_vars
    /\ []((ParallelMode /\ \E i \in Tasks : CallFailed(call_outcome[i])) =>
            \A j \in Tasks : CanGoOn(j))
    /\ []((ParallelMode /\ pc \notin {"start", "gather"}) =>
            \A i \in Tasks : task[i] = "done" /\ call_outcome[i].kind # "none")

\* C3, as a liveness property under LiveSpec: after a failure every task
\* runs to its own completion and the batch returns.
C3_AfterFailureAllComplete ==
    (ParallelMode /\ \E i \in Tasks : CallFailed(call_outcome[i]))
        ~> (BatchReturned /\ \A i \in Tasks : task[i] = "done")

\* C3 witness: a call has failed while a sibling is still waiting to be
\* admitted and another is in flight.
C3_Witness ==
    /\ ParallelMode
    /\ \E i \in Tasks : task[i] = "done" /\ CallFailed(call_outcome[i])
    /\ \E i \in Tasks : task[i] \in {"waiting", "woken"}
    /\ \E i \in Tasks : task[i] = "calling"

\* the failure text of an adapter call that failed
FailureText(out) == IF out.kind = "raise" THEN out.error ELSE ValidationError

\* C4: every invocation of process_single_query whose adapter call has ended
\* has returned a SearchResult and none has raised, in both modes; a failed
\* call gives success=false with the failure's text, a returned list gives
\* success=true; nothing reaches the scheduler or run_benchmark.
C4_ExecutorNeverRaises ==
    /\ pc # "raised"
    /\ \A i \in Tasks :
          /\ task[i] # "raised"
          /\ call_outcome[i].kind # "none" =>
                /\ task_result[i] # None
                /\ task_result[i][1].success = ~CallFailed(call_outcome[i])
                /\ CallFailed(call_outcome[i]) =>
                      task_result[i][1].error = Some(FailureText(call_outcome[i]))

\* C4 witness: an adapter call raised and another returned a malformed
\* payload, and both invocations returned a result.
C4_Witness ==
    /\ \E i \in Tasks : call_outcome[i].kind = "raise" /\ task_result[i] # None
    /\ \E i \in Tasks : call_outcome[i].kind = "malformed" /\ task_result[i] # None

\* C5: a run always completes: for every query list, flag and ceiling
\* max_workers >= 0, if every adapter call eventually returns or fails,
\* run_benchmark eventually returns its BenchmarkResult.
C5_RunCompletes == <>(pc = "done" /\ benchmark # None)

-----------------------------------------------------------------------------
(* Properties of the aggregator *)

\* calculate_summary_stats has been called on results and on results_alt
Summarized == pc = "stats_done"

\* the positions of the successful results of rs
SuccessIdx(rs) == {i \in DOMAIN rs : rs[i].success}

\* the fraction f = <<n, d>> is the number a / b
IsFrac(f, a, b) == f[2] > 0 /\ f[1] * b = a * f[2]

\* C6: for every list of results, the empty one included, total_queries is
\* the list's length, successful_queries the number of results with
\* success=true, failed_queries the number with success=false, and
\* total_queries = successful_queries + failed_queries.
C6_CountsPartition ==
    Summarized =>
        LET sm == summary[1]
        IN  /\ sm.total_queries = Len(results)
            /\ sm.successful_queries = Cardinality(SuccessIdx(results))
            /\ sm.failed_queries = Cardinality(DOMAIN results \ SuccessIdx(results))
            /\ sm.total_queries = sm.successful_queries + sm.failed_queries

\* C6 witness: a summary of three results, successful and failed ones.
C6_Witness ==
    /\ Summarized
    /\ Len(results) = 3
    /\ SuccessIdx(results) # {} /\ SuccessIdx(results) # DOMAIN results

\* C7: for every list of results the summary's latency statistics are absent
\* exactly when no result succeeded.
C7_LatencyIffSuccess ==
    Summarized => ((summary[1].latency = None) <=> (SuccessIdx(results) = {}))

\* C7 witness: a summary with statistics from exactly one success among
\* failed results.
C7_Witness ==
    /\ Summarized
    /\ Cardinality(SuccessIdx(results)) = 1
    /\ Len(results) > 1
    /\ summary[1].latency # None

\* the successful latencies of rs in ascending order, x[1] .. x[n]: x[k] is
\* the least value that at least k successful latencies do not exceed
SortedSuccessLatencies(rs) ==
    LET idxs == SuccessIdx(rs)
        AtMost(v) == Cardinality({i \in idxs : rs[i].latency_ms <= v})
    IN  [k \in 1..Cardinality(idxs) |->
            CHOOSE v \in {rs[i].latency_ms : i \in idxs} :
                /\ AtMost(v) >= k
                /\ \A i \in idxs : rs[i].latency_ms < v => AtMost(rs[i].latency_ms) < k]

\* the inclusive-method K-th percentile of the ascending x[1..n] is f:
\* with j = floor(K*(n-1)/100) and d = K*(n-1) mod 100,
\* f = (x[j]*(100-d) + x[j+1]*d) / 100, x counted from 0
IsInclusivePercentile(f, x, K) ==
    LET n == Len(x)
        j == (K * (n - 1)) \div 100
        d == (K * (n - 1)) % 100
    IN  IsFrac(f, x[j + 1] * (100 - d) + x[j + 2] * d, 100)

\* C8: with two or more successes p50, p90, p95 and p99 are the
\* inclusive-method percentiles of the sorted successful latencies, min and
\* max are their extrema and mean is their arithmetic mean.
C8_InclusivePercentiles ==
    (Summarized /\ Cardinality(SuccessIdx(results)) >= 2) =>
        LET x == SortedSuccessLatencies(results)
            n == Len(x)
            st == summary[1].latency[1]
        IN  /\ IsInclusivePercentile(st.p50, x, 50)
            /\ IsInclusivePercentile(st.p90, x, 90)
            /\ IsInclusivePercentile(st.p95, x, 95)
            /\ IsInclusivePercentile(st.p99, x, 99)
            /\ IsFrac(st.min, x[1], 1)
            /\ IsFrac(st.max, x[n], 1)
            /\ IsFrac(st.mean, SumSeq(x), n)

\* C8 witness: three successes given out of order, with distinct latencies,
\* so that the percentiles fall between two samples.
C8_Witness ==
    /\ Summarized
    /\ Len(results) = 3 /\ SuccessIdx(results) = {1, 2, 3}
    /\ results[1].latency_ms > results[2].latency_ms
    /\ results[3].latency_ms > results[1].latency_ms
    /\ summary[1].latency[1].p90[2] > 1

\* C9: with exactly one successful result, of latency L, and any number of
\* failed results, all seven statistics equal L.
C9_SingleSuccess ==
    (Summarized /\ Cardinality(SuccessIdx(results)) = 1) =>
        LET L == results[CHOOSE i \in SuccessIdx(results) : TRUE].latency_ms
            st == summary[1].latency[1]
        IN  /\ summary[1].latency # None
            /\ \A f \in {st.min, st.p50, st.p90, st.p95, st.p99, st.max, st.mean} :
                  f = <<L, 1>>

\* C9 witness: one success after a failed result with another latency.
C9_Witness ==
    /\ Summarized
    /\ Len(results) = 2
    /\ ~results[1].success /\ results[2].success
    /\ results[1].latency_ms # results[2].latency_ms

\* C10: two lists with the same successful results, differing only in the
\* number or the latencies of failed results, get identical latency
\* statistics.
C10_FailedLatenciesIgnored ==
    (Summarized /\ successful(results) = successful(results_alt)) =>
        summary[1].latency = summary_alt[1].latency

\* C10 witness: two lists with the same two successes, the second with a
\* failed result slower than every success where the first has none.
C10_Witness ==
    /\ Summarized
    /\ Cardinality(SuccessIdx(results)) = 2
    /\ Len(results_alt) = Len(results) + 1
    /\ \E k \in DOMAIN results_alt :
          /\ ~results_alt[k].success
          /\ \A i \in SuccessIdx(results) :
                results_alt[k].latency_ms > results[i].latency_ms

-----------------------------------------------------------------------------
(* Properties of the executor and of the run record *)

\* the SearchResults process_single_query has produced so far
Produced == {task_result[i][1] : i \in {j \in Tasks : task_result[j] # None}}

\* C11: every SearchResult produced by process_single_query has its error
\* set if and only if success is false, and a non-empty result_urls only if
\* success is true; the same holds of every result in the returned list.
C11_ErrorIffFailed ==
    /\ \A r \in Produced :
          /\ (r.error # None) <=> ~r.success
          /\ (r.result_urls # <<>>) => r.success
    /\ \A k \in DOMAIN results :
          /\ (results[k].error # None) <=> ~results[k].success
          /\ (results[k].result_urls # <<>>) => results[k].success

\* C11 witness: a failed result, a successful result with URLs and a
\* successful result with no URL have all been produced.
C11_Witness ==
    /\ \E r \in Produced : ~r.success /\ r.error # None /\ r.result_urls = <<>>
    /\ \E r \in Produced : r.success /\ r.result_urls # <<>>
    /\ \E r \in Produced : r.success /\ r.result_urls = <<>>

\* the executions whose adapter call has ended, and those that failed
Ended == {i \in Tasks : call_outcome[i].kind # "none"}
Failed == {i \in Tasks : CallFailed(call_outcome[i])}

\* the adapter call of execution i ends in this step
EndsNow(i) == call_outcome[i].kind = "none" /\ call_outcome'[i].kind # "none"

\* C12: the failure counter goes up by exactly one in the step in which an
\* execution fails and is left alone by every other step (a successful
\* execution included), in both modes and under every interleaving; so in
\* every state it equals the number of executions failed so far, and when
\* the batch has returned it equals the number of results with
\* success=false.
C12_FailedCountExact ==
    /\ [][IF \E i \in Tasks : EndsNow(i) /\ CallFailed(call_outcome'[i])
          THEN failed_count' = failed_count + 1
          ELSE failed_count' = failed_count]_vars
    /\ [](failed_count = Cardinality(Failed))
    /\ [](BatchReturned =>
            failed_count = Cardinality({k \in DOMAIN results : ~results[k].success}))

\* C12 witness: a parallel batch of three with two calls in flight at a time
\* has returned, two of its calls failed and one successful.
C12_Witness ==
    /\ ParallelMode /\ BatchReturned
    /\ Len(queries) = 3
    /\ failed_count = 2
    /\ Cardinality({k \in DOMAIN results : results[k].success}) = 1
    /\ max_workers = 2

\* the batch runs in sequential mode: process_batch takes its own loop
SequentialMode == ~(parallel /\ Len(queries) > 1)

\* the adapter calls in flight in sequential mode
SeqInFlight == IF pc = "seq_await" THEN {idx} ELSE {}

\* C13: in sequential mode (flag false, or at most one query) the adapter
\* calls run one at a time in input order, whatever max_workers is: no
\* bounded_process task and no semaphore exist, at most one call is in
\* flight, while the call of query i is in flight the calls of all queries
\* before i have ended and none after i has started, the results recorded
\* so far are those of the first queries in input order, and the returned
\* list has the i-th query's result at position i.
C13_SequentialInOrder ==
    SequentialMode =>
        /\ pc # "gather"
        /\ \A i \in Tasks : task[i] = "new"
        /\ InFlight = {} /\ sem_waiters = <<>>
        /\ Cardinality(SeqInFlight) <= 1
        /\ \A i \in SeqInFlight : Ended = 1..(i - 1)
        /\ \A i \in Ended : \A j \in Tasks : j < i => j \in Ended
        /\ Len(results) = Cardinality(Ended)
        /\ \A k \in DOMAIN results :
              /\ results[k].query = queries[k]
              /\ results[k] = task_result[k][1]
        /\ BatchReturned =>
              /\ Len(results) = Len(queries)
              /\ benchmark[1].results = results

\* C13 witness: a sequential batch of three distinct neighbours with
\* max_workers = 2 has returned, one call failed and one successful.
C13_Witness ==
    /\ ~parallel /\ max_workers = 2
    /\ Len(queries) = 3 /\ queries[1] # queries[2]
    /\ BatchReturned
    /\ Failed # {} /\ Failed # Tasks

\* the results of the invocations in the order in which they completed
InCompletionOrder ==
    [k \in DOMAIN completion_order |-> task_result[completion_order[k]][1]]

\* the results of the invocations in the order in which they were submitted
InSubmissionOrder == [i \in Tasks |-> task_result[i][1]]

\* C14 as stated: after a parallel run the results list of the
\* BenchmarkResult is in completion order: the result of an invocation that
\* completed earlier stands before that of one that completed later, even
\* when the later one was submitted first.
C14_CompletionOrder ==
    (ParallelMode /\ BatchReturned) => benchmark[1].results = InCompletionOrder

\* C14, amended: after a parallel run the results list of the
\* BenchmarkResult is in submission order, whatever the completion order:
\* the result of the query submitted earlier stands before that of the query
\* submitted later.
C14_SubmissionOrder ==
    (ParallelMode /\ BatchReturned) =>
        /\ benchmark[1].results = InSubmissionOrder
        /\ results = InSubmissionOrder

\* C14 witness: a parallel batch has returned whose second query completed
\* first, with a result that differs from the first query's.
C14_Witness ==
    /\ ParallelMode /\ BatchReturned
    /\ completion_order[1] = 2
    /\ task_result[1] # task_result[2]
    /\ InCompletionOrder # InSubmissionOrder

\* C15: whenever the batch ran sequentially (flag false, or a single-query
\* batch whatever the flag), the BenchmarkResult records execution_mode
\* "sequential" and max_workers 1.
C15_RecordDescribesRun ==
    (BatchReturned /\ (~parallel \/ Len(queries) = 1)) =>
        /\ benchmark[1].execution_mode = "sequential"
        /\ benchmark[1].max_workers = 1

-----------------------------------------------------------------------------
(* Properties of a single-query batch under both flag values (FlagSpec) *)

\* both runs of the single-query batch have returned, and the adapter
\* behaved the same in both
BothReturned ==
    /\ pc = "done"
    /\ other_run # None
    /\ call_outcome = other_run[1].call_outcome

\* a result without its measured time
WithoutLatency(r) ==
    [success |-> r.success, api |-> r.api, query |-> r.query,
     result_urls |-> r.result_urls, status_code |-> r.status_code,
     error |-> r.error]

\* a run record without its measured times
WithoutTimes(b) ==
    [api |-> b.api, execution_mode |-> b.execution_mode,
     max_workers |-> b.max_workers, queries_count |-> b.queries_count,
     total_queries |-> b.summary.total_queries,
     successful_queries |-> b.summary.successful_queries,
     failed_queries |-> b.summary.failed_queries,
     has_latency |-> b.summary.latency # None,
     results |-> [k \in DOMAIN b.results |-> WithoutLatency(b.results[k])]]

\* what WithoutTimes keeps, less the recorded mode and worker count
WithoutMode(w) ==
    [api |-> w.api, queries_count |-> w.queries_count,
     total_queries |-> w.total_queries,
     successful_queries |-> w.successful_queries,
     failed_queries |-> w.failed_queries,
     has_latency |-> w.has_latency, results |-> w.results]

\* neither run created a semaphore or a task, and each made one adapter call
OneCallNoLimiter ==
    /\ \A i \in Tasks : task[i] = "new" /\ other_run[1].task[i] = "new"
    /\ sem_value = 0 /\ other_run[1].sem_value = 0
    /\ Len(completion_order) = 1 /\ Len(other_run[1].completion_order) = 1

\* C16: for a single-query batch and the same adapter behaviour the output
\* is the same under both values of the flag: no semaphore is created,
\* exactly one adapter call is made, and the result list and the run record
\* agree apart from the measured times.
C16_FlagIrrelevantForOne ==
    BothReturned =>
        /\ OneCallNoLimiter
        /\ [k \in DOMAIN results |-> WithoutLatency(results[k])]
              = [k \in DOMAIN other_run[1].results |->
                    WithoutLatency(other_run[1].results[k])]
        /\ WithoutTimes(benchmark[1]) = WithoutTimes(other_run[1].benchmark)

\* C16, the part the code keeps: both runs take the sequential loop, make
\* one adapter call and produce the same result and the same run record
\* apart from the measured times and the recorded mode and worker count.
C16_SameApartFromMode ==
    BothReturned =>
        /\ OneCallNoLimiter
        /\ WithoutMode(WithoutTimes(benchmark[1]))
              = WithoutMode(WithoutTimes(other_run[1].benchmark))

-----------------------------------------------------------------------------
(* Properties of a run against the Brave adapter (BraveSpec) *)

\* the calls that have ended and whose response had the status c
EndedWithStatus(c) ==
    {i \in Ended : response[i] # None /\ response[i][1].status_code = c}

\* the calls that have ended on a status other than 200 and 422
EndedWithErrorStatus ==
    UNION {EndedWithStatus(c) : c \in BraveStatuses \ {StatusOk, StatusNoResults}}

\* C17: a call in which the Brave adapter received status 422 returns the
\* empty list and its execution is recorded with success=true and
\* result_urls=[] and no error; a call that received any other status but
\* 200 raises and is recorded with success=false and the error text; and
\* the failure counter counts the latter only, never a 422.
C17_NoResultsIsSuccess ==
    /\ \A i \in EndedWithStatus(StatusNoResults) :
          /\ call_outcome[i] = [kind |-> "return", urls |-> <<>>, error |-> ""]
          /\ task_result[i] # None
          /\ task_result[i][1].success
          /\ task_result[i][1].result_urls = <<>>
          /\ task_result[i][1].error = None
    /\ \A i \in EndedWithErrorStatus :
          /\ call_outcome[i].kind = "raise"
          /\ task_result[i] # None
          /\ ~task_result[i][1].success
          /\ task_result[i][1].error
                = Some(BraveErrorText(response[i][1].status_code))
    /\ failed_count = Cardinality(EndedWithErrorStatus)
    /\ BatchReturned =>
          \A i \in Tasks : benchmark[1].results[i] = task_result[i][1]

\* C17 witness: a batch has returned in which one call received 422 and
\* another 500; one failure was counted.
C17_Witness ==
    /\ BatchReturned
    /\ EndedWithStatus(StatusNoResults) # {}
    /\ EndedWithStatus(500) # {}
    /\ failed_count = 1
    /\ benchmark[1].summary.failed_queries = 1

-----------------------------------------------------------------------------
(* Properties of the measured times *)

\* C18: in both modes, for every run with at least one query, the
\* total_execution_time_ms of the BenchmarkResult is at least the latency_ms
\* of every result in it (the clock of the model never goes backwards).
C18_TotalAtLeastEveryLatency ==
    (BatchReturned /\ Len(queries) >= 1) =>
        /\ Len(benchmark[1].results) = Len(queries)
        /\ \A k \in DOMAIN benchmark[1].results :
              benchmark[1].total_execution_time_ms
                  >= benchmark[1].results[k].latency_ms

\* C18 witness: a parallel run has returned whose slowest call took the
\* whole time of the run while another call took less.
C18_Witness ==
    /\ ParallelMode /\ BatchReturned
    /\ benchmark[1].total_execution_time_ms = MaxTime * 1000
    /\ \E k \in DOMAIN results :
          results[k].latency_ms = benchmark[1].total_execution_time_ms
    /\ \E k \in DOMAIN results :
          /\ results[k].latency_ms > 0
          /\ results[k].latency_ms < benchmark[1].total_execution_time_ms

\* C19: a sequential batch of N queries issues exactly N-1 pauses, each
\* between two successive queries: when the batch has returned N-1 sleeps
\* have been made (none for one query), and every sleep was made with at
\* least one result recorded and at least one query still to come, never
\* after the last query's result.
C19_PausesBetweenQueries ==
    (~parallel /\ Len(queries) >= 1) =>
        /\ \A k \in DOMAIN sleep_log :
              sleep_log[k] >= 1 /\ sleep_log[k] < Len(queries)
        /\ BatchReturned => Len(sleep_log) = Len(queries) - 1

\* the adapter call of invocation i starts in this step
StartsNow(i) ==
    \/ task[i] # "calling" /\ task'[i] = "calling"
    \/ pc # "seq_await" /\ pc' = "seq_await" /\ idx' = i

\* the adapter call of invocation i is in flight before and after this step
StaysInFlight(i) ==
    \/ task[i] = "calling" /\ task'[i] = "calling"
    \/ pc = "seq_await" /\ pc' = "seq_await" /\ idx = i

\* the latencies of the results of the returned record
RecordedLatencies ==
    [k \in DOMAIN benchmark[1].results |-> benchmark[1].results[k].latency_ms]

\* C20: the latency_ms of a result is the time from the start of its adapter
\* call to that call's return or failure. The start time is read in the
\* step in which the call starts (in parallel mode the step in which the
\* task holds a unit of the semaphore), it is kept while the call is in
\* flight, and the recorded latency is the clock at the call's end less
\* that start; so with a ceiling of 1, where every call but the first has
\* queued behind the others, the latencies together do not exceed the time
\* of the whole run.
C20_LatencyIsCallTime ==
    /\ [][\A i \in Tasks :
            /\ StartsNow(i) => start_time'[i] = now'
            /\ StaysInFlight(i) => start_time'[i] = start_time[i]
            /\ EndsNow(i) =>
                  /\ task_result'[i] # None
                  /\ task_result'[i][1].latency_ms = (now' - start_time[i]) * 1000]_vars
    /\ []((ParallelMode /\ BatchReturned /\ max_workers = 1) =>
            SumSeq(RecordedLatencies) <= benchmark[1].total_execution_time_ms)

\* C20 witness: with a ceiling of 1 the second task queued for a second
\* behind the first, whose call took a second, and its own call then took
\* a second: its latency is one second, not two.
C20_Witness ==
    /\ ParallelMode /\ max_workers = 1
    /\ now = 2 /\ run_start = 0
    /\ task[1] = "done" /\ task[2] = "done"
    /\ task_result[1][1].latency_ms = 1000
    /\ task_result[2][1].latency_ms = 1000

-----------------------------------------------------------------------------
(* Properties of the progress notifications and of the returned list *)

\* the invocations that failed among the first k to complete
FailedAmongFirst(k) ==
    {j \in 1..k : CallFailed(call_outcome[completion_order[j]])}

\* C21: in both modes the progress observer is notified exactly once per
\* query, in the step in which that query's invocation completes: there are
\* as many notifications as completed invocations (N once a batch of N has
\* returned), the k-th brings the completed count to k, and the failure
\* count it shows is the number of failed executions among the first k
\* invocations to complete, the k-th included.
C21_OneNotificationPerQuery ==
    /\ Len(progress_log) = Len(completion_order)
    /\ Len(progress_log) = Cardinality(Ended)
    /\ \A k \in DOMAIN progress_log :
          /\ progress_log[k].completed = k
          /\ progress_log[k].failed = Cardinality(FailedAmongFirst(k))
    /\ BatchReturned => Len(progress_log) = Len(queries)

\* C21 witness: a parallel batch of three has returned whose invocations
\* completed out of submission order, the first to complete successful and
\* the second failed.
C21_Witness ==
    /\ ParallelMode /\ BatchReturned
    /\ Len(queries) = 3
    /\ completion_order[1] # 1
    /\ progress_log[1].failed = 0
    /\ progress_log[2].failed = 1
    /\ progress_log[3].failed = 1

\* the result at position i of the list rs is that of the i-th query's own
\* adapter call
OwnResult(rs, i) ==
    /\ rs[i].query = queries[i]
    /\ rs[i].success = ~CallFailed(call_outcome[i])
    /\ rs[i].success => rs[i].result_urls = call_outcome[i].urls
    /\ ~rs[i].success => rs[i].error = Some(FailureText(call_outcome[i]))

\* C22: in parallel mode the returned list keeps positional correspondence
\* with the input, whatever the completion order: it is as long as the
\* query list, and for every index i its i-th SearchResult has the i-th
\* query's text and the success flag, URLs or error of that query's own
\* adapter call; so has the list of the BenchmarkResult.
C22_PositionalCorrespondence ==
    (ParallelMode /\ BatchReturned) =>
        /\ Len(results) = Len(queries)
        /\ DOMAIN benchmark[1].results = DOMAIN queries
        /\ \A i \in DOMAIN queries :
              OwnResult(results, i) /\ OwnResult(benchmark[1].results, i)

\* C22 witness: a parallel batch of three with differing neighbours has
\* returned; the second query completed first and successfully, the first
\* query completed last, after the third, and failed.
C22_Witness ==
    /\ ParallelMode /\ BatchReturned
    /\ Len(queries) = 3 /\ queries[1] # queries[2]
    /\ completion_order = <<2, 3, 1>>
    /\ call_outcome[2].kind = "return" /\ call_outcome[2].urls # <<>>
    /\ CallFailed(call_outcome[1])

====
